---- MODULE Spec2Model ----
(***************************************************************************)
(* Model of the address-classification and ban-lifecycle engine of         *)
(* HaxWall (src/HaxWall/ban.h) together with the way main() drives it      *)
(* (src/HaxWall/HaxWall.cpp).                                              *)
(*                                                                         *)
(* Time is in whole seconds (time_t).  `clock' is the wall clock that      *)
(* time() reads; `now' is the file-static variable of ban.h that           *)
(* ReceivePacket and ClearOldEntries refresh with time(&now) and that      *)
(* every other routine only reads.                                         *)
(***************************************************************************)
EXTENDS Integers, FiniteSets, Sequences, TLC

\* ------------------------------------------------------------ tunables
MAX_PORTS == 3
TIMEOUT == 60
PURGE_INTERVAL == 30
MAX_PACKETS == 80
MAX_PACKET_FRAME == 1
BAN_DURATION_MULTIPORT == 60
BAN_DURATION_FLOOD == 60
BAN_DURATION_BLACKLIST == 3600

\* --------------------------------------------------------------- bounds
\* Number of clock advances in one behaviour.
MaxTicks == 2
\* A sender's packets number BurstHead + 1 to MAX_PACKETS - BurstTail since its
\* last reset arrive as one burst within one clock second.
BurstHead == 4
BurstTail == 0
\* An address is fed at most MAX_PACKETS + OverRun packets between resets.
OverRun == 1
\* An address has at most EarlyPackets packets counted before SetBlacklist is called.
EarlyPackets == 1

\* The sender of a behaviour is heard in the first MaxIdle hours of the clock
\* and is silent afterwards.
MaxIdle == 1

\* ------------------------------------------------------------ the inputs
Normal == 16909060         \* 1.2.3.4     neither special nor listed
Loopback == 2130706433     \* 127.0.0.1   special
Private == 167837953       \* 10.1.1.1    special, and in the exceptions
DataCenter == 134744072    \* 8.8.8.8     blacklisted
Friend == 84281096         \* 5.6.7.8     blacklisted and in the exceptions

Addrs == {Normal, Loopback, Private, DataCenter, Friend}
Ports == {9000, 9001, 9002, 9003}
\* The clock advances by one of these steps.
Deltas == {MAX_PACKET_FRAME, PURGE_INTERVAL, TIMEOUT}

\* A slot of times[] that was never written holds an indeterminate value.
Indeterminate == -1

\* A CIDR range is <<prefix, mask_bits>>; NULL is the absent matcher.
NULL == {}
DataCenters == {<<134217728, 8>>, <<83886080, 8>>}     \* 8.0.0.0/8, 5.0.0.0/8
HaxBallMatcher == {<<167772160, 8>>, <<84281088, 24>>} \* 10.0.0.0/8, 5.6.7.0/24

Pow2(n) == 2 ^ n

\* CIDRMatcher::Contains: some range's prefix agrees with addr on mask_bits bits.
Contains(matcher, addr) ==
  \E r \in matcher :
    addr \div Pow2(32 - r[2]) = r[1] \div Pow2(32 - r[2])

VARIABLES
  clock,        \* the wall clock read by time()
  now,          \* static time_t now
  table,        \* unordered_map<uint32_t, AddressStatistics>
  bans,         \* unordered_map<uint32_t, BanInfo>
  whitelist,    \* unordered_set<uint32_t>
  last_purge,   \* time_t last_purge
  blacklist,    \* CIDRMatcher *blacklist
  exceptions,   \* CIDRMatcher *exceptions
  configured,   \* main() has called SetBlacklist
  ticks,        \* clock advances so far
  peer,         \* the remote host this behaviour is about
  last,         \* the last completed call: operation, arguments and result
  logged,       \* the audit lines the last call wrote: <<tag, addr>>
  banCalls,     \* ban_function invocations of the last call, per address
  unbanCalls,   \* unban_function invocations of the last call, per address
  rule,         \* per address, the most recent actuator callback issued
  unbansSinceBan \* per address, unban_function calls since its ban record was inserted

vars == <<clock, now, table, bans, whitelist, last_purge, blacklist, exceptions,
          configured, ticks, peer, last, logged, banCalls, unbanCalls, rule, unbansSinceBan>>

engine == <<table, bans, whitelist, last_purge, blacklist, exceptions>>

\* ---------------------------------------------------- AddressStatistics
difftime(a, b) == a - b

NoCalls == [a \in Addrs |-> 0]

\* ports.erase of every entry with difftime(now, it->second) > TIMEOUT
RemoveOldPorts(s, t) ==
  LET old == {q \in DOMAIN s.ports : difftime(t, s.ports[q]) > TIMEOUT}
  IN IF old = {} THEN s
     ELSE [s EXCEPT !.ports = [p \in DOMAIN s.ports \ old |-> s.ports[p]]]

\* Reset(port) on an object whose times[] holds `old'.  The field fresh is
\* not in the code: it names the slots of times[] written since the last Reset.
Reset(old, port, t) ==
  [times |-> [old EXCEPT ![0] = t],
   packet_count |-> 1,
   last_time |-> 0,
   ports |-> (port :> t),
   fresh |-> {0}]

\* AddressStatistics(port): Reset on a fresh object
NewStatistics(port, t) ==
  Reset([i \in 0 .. MAX_PACKETS - 1 |-> Indeterminate], port, t)

\* TimedOut with elapsed >= timeout: exactly TIMEOUT seconds count as timed out.
StatsTimedOutAtLimit(s, t) == difftime(t, s.times[s.last_time]) >= TIMEOUT

StatsTimedOut(s, t) == difftime(t, s.times[s.last_time]) > TIMEOUT

\* ++i on a ring index: back to 0 at MAX_PACKETS
NextSlot(i) == IF i + 1 >= MAX_PACKETS THEN 0 ELSE i + 1

CountPacket(s, t) ==
  [s EXCEPT !.packet_count = s.packet_count + 1,
            !.last_time = NextSlot(s.last_time),
            !.times = [s.times EXCEPT ![NextSlot(s.last_time)] = t],
            !.fresh = s.fresh \cup {NextSlot(s.last_time)}]

\* HitLimit without the packet_count guard: the ring is compared before it is full.
HitLimitUnguarded(s) ==
  LET first_time == NextSlot(s.last_time)
  IN IF s.times[first_time] = Indeterminate THEN {TRUE, FALSE}
     ELSE {difftime(s.times[s.last_time], s.times[first_time]) < MAX_PACKET_FRAME}

\* HitLimit with the counter compared by >= : the limit is hit one packet early.
HitLimitAtMax(s) ==
  LET first_time == NextSlot(s.last_time)
  IN IF ~(s.packet_count >= MAX_PACKETS) THEN {FALSE}
     ELSE IF s.times[first_time] = Indeterminate THEN {TRUE, FALSE}
     ELSE {difftime(s.times[s.last_time], s.times[first_time]) < MAX_PACKET_FRAME}

\* The values HitLimit can return: reading a slot never written yields any diff.
HitLimit(s) ==
  LET first_time == NextSlot(s.last_time)
  IN IF ~(s.packet_count > MAX_PACKETS) THEN {FALSE}
     ELSE IF s.times[first_time] = Indeterminate THEN {TRUE, FALSE}
     ELSE {difftime(s.times[s.last_time], s.times[first_time]) < MAX_PACKET_FRAME}

\* ---------------------------------------------------------------- BanInfo
BanInfo(duration, t) == [expiry |-> t + duration]

\* TimedOut with elapsed > 0: a ban outlives its expiry second.
BanTimedOutLate(b, t) == difftime(t, b.expiry) > 0

BanTimedOut(b, t) == difftime(t, b.expiry) >= 0

\* --------------------------------------------------------- AttackFirewall
Octet(addr, shift) == (addr \div Pow2(shift)) % 256

IsSpecialAddress(addr) ==
  LET b1 == Octet(addr, 24)
      b2 == Octet(addr, 16)
      b3 == Octet(addr, 8)
  IN \/ b1 \in {0, 10, 127}
     \/ b1 = 100 /\ b2 >= 64 /\ b2 <= 127
     \/ b1 = 169 /\ b2 = 254
     \/ b1 = 172 /\ b2 >= 16 /\ b2 <= 32
     \/ b1 = 192 /\ (\/ b2 = 0 /\ (b3 = 0 \/ b3 = 2)
                     \/ b2 = 88 /\ b3 = 99
                     \/ b2 = 168)
     \/ b1 = 198 /\ ((b2 >= 18 /\ b2 <= 19) \/ (b2 = 51 /\ b3 = 100))
     \/ b1 = 203 /\ b2 = 0 /\ b3 = 113
     \/ b1 >= 224

\* unordered_map::insert: no effect when the key is present
Insert(m, k, v) == IF k \in DOMAIN m THEN m ELSE m @@ (k :> v)

Erase(m, k) == [x \in DOMAIN m \ {k} |-> m[x]]

Exempt(addr) == IsSpecialAddress(addr) \/ addr \in whitelist

Call(op, addr, result) ==
  [op |-> op, addr |-> addr, result |-> result]

\* ban_function(addr) when a ban record is inserted
IssueBan(addr) ==
  /\ banCalls' = [NoCalls EXCEPT ![addr] = 1]
  /\ unbanCalls' = NoCalls
  /\ rule' = [rule EXCEPT ![addr] = "ban"]
  /\ unbansSinceBan' = [unbansSinceBan EXCEPT ![addr] = 0]

NoCallbacks ==
  /\ banCalls' = NoCalls
  /\ unbanCalls' = NoCalls
  /\ UNCHANGED <<rule, unbansSinceBan>>

Init ==
  /\ clock = 0
  /\ now = 0
  /\ table = <<>>
  /\ bans = <<>>
  /\ whitelist = {}
  /\ last_purge = 0
  /\ blacklist = NULL
  /\ exceptions = NULL
  /\ configured = FALSE
  /\ ticks = 0
  /\ peer \in Addrs
  /\ last = Call("AttackFirewall", 0, "none")
  /\ logged = {}
  /\ banCalls = NoCalls
  /\ unbanCalls = NoCalls
  /\ rule = [a \in Addrs |-> "none"]
  /\ unbansSinceBan = [a \in Addrs |-> 0]

\* The clock advances by d between two calls; what the last call was seen
\* to do is forgotten.
Tick(d) ==
  /\ clock' = clock + d
  /\ last' = Call("time", 0, "none")
  /\ logged' = {}
  /\ NoCallbacks
  /\ UNCHANGED <<now, engine, configured>>

AddWhitelist(addr) ==
  /\ whitelist' = whitelist \cup {addr}
  /\ last' = Call("AddWhitelist", addr, "none")
  /\ logged' = {}
  /\ NoCallbacks
  /\ UNCHANGED <<clock, now, table, bans, last_purge, blacklist, exceptions,
                 configured>>

SetBlacklist(pBlacklist, pExceptions) ==
  /\ blacklist' = pBlacklist
  /\ exceptions' = pExceptions
  /\ configured' = TRUE
  /\ last' = Call("SetBlacklist", 0, "none")
  /\ logged' = {}
  /\ NoCallbacks
  /\ UNCHANGED <<clock, now, table, bans, whitelist, last_purge>>

\* AttackFirewall::IsActive; the timeout parameter is not used
IsActive(addr) ==
  IF addr \notin DOMAIN table THEN FALSE ELSE ~StatsTimedOut(table[addr], now)

\* main(): a 4-byte datagram on the verification socket
Query(addr) ==
  /\ last' = Call("IsActive", addr, IsActive(addr))
  /\ logged' = {<<"Query:", addr>>}
  /\ NoCallbacks
  /\ UNCHANGED <<clock, now, engine, configured>>

\* ------------------------------------------------------- ReceivePacket
\* Every branch starts with time(&now).
Returns(addr, port, result, lines) ==
  /\ now' = clock
  /\ last' = Call("ReceivePacket", addr, result)
  /\ logged' = lines
  /\ UNCHANGED <<clock, last_purge, blacklist, exceptions, configured>>

\* The exempt branch taken after the statistics lookup: the address is tracked.
RecvExemptTracked(addr, port) ==
  /\ Exempt(addr)
  /\ table' = Insert(table, addr, NewStatistics(port, clock))
  /\ Returns(addr, port, "Unbanned", {})
  /\ NoCallbacks
  /\ UNCHANGED <<bans, whitelist>>

RecvExempt(addr, port) ==
  /\ Exempt(addr)
  /\ Returns(addr, port, "Unbanned", {})
  /\ NoCallbacks
  /\ UNCHANGED <<table, bans, whitelist>>

RecvUnban(addr, port) ==
  /\ ~Exempt(addr)
  /\ addr \in DOMAIN bans
  /\ BanTimedOut(bans[addr], clock)
  /\ bans' = Erase(bans, addr)
  /\ banCalls' = NoCalls
  /\ unbanCalls' = [NoCalls EXCEPT ![addr] = 1]
  /\ rule' = [rule EXCEPT ![addr] = "unban"]
  /\ unbansSinceBan' = [unbansSinceBan EXCEPT ![addr] = @ + 1]
  /\ Returns(addr, port, "Unban", {<<"Unban:", addr>>})
  /\ UNCHANGED <<table, whitelist>>

RecvBanned(addr, port) ==
  /\ ~Exempt(addr)
  /\ addr \in DOMAIN bans
  /\ ~BanTimedOut(bans[addr], clock)
  /\ Returns(addr, port, "Banned", {})
  /\ NoCallbacks
  /\ UNCHANGED <<table, bans, whitelist>>

FirstSighting(addr) ==
  /\ ~Exempt(addr)
  /\ addr \notin DOMAIN bans
  /\ addr \notin DOMAIN table

RecvWhitelist(addr, port) ==
  /\ FirstSighting(addr)
  /\ exceptions # NULL /\ Contains(exceptions, addr)
  /\ whitelist' = whitelist \cup {addr}
  /\ Returns(addr, port, "Unbanned", {<<"Whitelist:", addr>>})
  /\ NoCallbacks
  /\ UNCHANGED <<table, bans>>

\* The blacklist consulted without regard to the exceptions.
RecvBlacklistFirst(addr, port) ==
  /\ FirstSighting(addr)
  /\ blacklist # NULL /\ Contains(blacklist, addr)
  /\ bans' = Insert(bans, addr, BanInfo(BAN_DURATION_BLACKLIST, clock))
  /\ IssueBan(addr)
  /\ Returns(addr, port, "Ban", {<<"Blacklist:", addr>>})
  /\ UNCHANGED <<table, whitelist>>

RecvBlacklist(addr, port) ==
  /\ FirstSighting(addr)
  /\ ~(exceptions # NULL /\ Contains(exceptions, addr))
  /\ blacklist # NULL /\ Contains(blacklist, addr)
  /\ bans' = Insert(bans, addr, BanInfo(BAN_DURATION_BLACKLIST, clock))
  /\ IssueBan(addr)
  /\ Returns(addr, port, "Ban", {<<"Blacklist:", addr>>})
  /\ UNCHANGED <<table, whitelist>>

RecvFirstPacket(addr, port) ==
  /\ FirstSighting(addr)
  /\ ~(exceptions # NULL /\ Contains(exceptions, addr))
  /\ ~(blacklist # NULL /\ Contains(blacklist, addr))
  /\ table' = Insert(table, addr, NewStatistics(port, clock))
  /\ Returns(addr, port, "Unbanned", {<<"First packet:", addr>>})
  /\ NoCallbacks
  /\ UNCHANGED <<bans, whitelist>>

Returning(addr) ==
  /\ ~Exempt(addr)
  /\ addr \notin DOMAIN bans
  /\ addr \in DOMAIN table

RecvReappearance(addr, port) ==
  /\ Returning(addr)
  /\ StatsTimedOut(table[addr], clock)
  /\ table' = [table EXCEPT ![addr] = Reset(table[addr].times, port, clock)]
  /\ Returns(addr, port, "Unbanned", {<<"Reappearance:", addr>>})
  /\ NoCallbacks
  /\ UNCHANGED <<bans, whitelist>>

\* The port count that decides the multiport ban: after RemoveOldPorts and
\* before this packet's port is recorded.
TooManyPorts(s) == Cardinality(DOMAIN s.ports) > MAX_PORTS

\* The multiport branch without table.erase(entry).
RecvMultiportKept(addr, port) ==
  /\ Returning(addr)
  /\ ~StatsTimedOut(table[addr], clock)
  /\ TooManyPorts(RemoveOldPorts(table[addr], clock))
  /\ bans' = Insert(bans, addr, BanInfo(BAN_DURATION_MULTIPORT, clock))
  /\ IssueBan(addr)
  /\ Returns(addr, port, "Ban", {<<"Multiport:", addr>>})
  /\ UNCHANGED <<table, whitelist>>

RecvMultiport(addr, port) ==
  /\ Returning(addr)
  /\ ~StatsTimedOut(table[addr], clock)
  /\ TooManyPorts(RemoveOldPorts(table[addr], clock))
  /\ bans' = Insert(bans, addr, BanInfo(BAN_DURATION_MULTIPORT, clock))
  /\ table' = Erase(table, addr)
  /\ IssueBan(addr)
  /\ Returns(addr, port, "Ban", {<<"Multiport:", addr>>})
  /\ UNCHANGED whitelist

\* RemoveOldPorts(); ports[port] = now
Recorded(s, port, t) ==
  LET r == RemoveOldPorts(s, t)
  IN [r EXCEPT !.ports = IF port \in DOMAIN r.ports
                           THEN [r.ports EXCEPT ![port] = t]
                           ELSE r.ports @@ (port :> t)]

\* ... and CountPacket()
Counted(s, port, t) == CountPacket(Recorded(s, port, t), t)

RecvFlood(addr, port) ==
  /\ Returning(addr)
  /\ ~StatsTimedOut(table[addr], clock)
  /\ ~TooManyPorts(RemoveOldPorts(table[addr], clock))
  /\ TRUE \in HitLimit(Counted(table[addr], port, clock))
  /\ bans' = Insert(bans, addr, BanInfo(BAN_DURATION_FLOOD, clock))
  /\ table' = Erase(table, addr)
  /\ IssueBan(addr)
  /\ Returns(addr, port, "Ban", {<<"Flood:", addr>>})
  /\ UNCHANGED whitelist

RecvCounted(addr, port) ==
  /\ Returning(addr)
  /\ ~StatsTimedOut(table[addr], clock)
  /\ ~TooManyPorts(RemoveOldPorts(table[addr], clock))
  /\ FALSE \in HitLimit(Counted(table[addr], port, clock))
  /\ table' = [table EXCEPT ![addr] = Counted(table[addr], port, clock)]
  /\ Returns(addr, port, "Unbanned", {})
  /\ NoCallbacks
  /\ UNCHANGED <<bans, whitelist>>

\* k consecutive calls of ReceivePacket at the same second t from the same
\* port, each taking the counted branch: CountPacket k times writes t to the
\* k slots following last_time and adds k to packet_count.
Slot(s, t, k, i) ==
  IF (i - s.last_time - 1) % MAX_PACKETS < k THEN t ELSE s.times[i]

Feed(s, port, t, k) ==
  [Recorded(s, port, t) EXCEPT
     !.packet_count = s.packet_count + k,
     !.last_time = (s.last_time + k) % MAX_PACKETS,
     !.times = [i \in 0 .. MAX_PACKETS - 1 |-> Slot(s, t, k, i)],
     !.fresh = s.fresh \cup {i \in 0 .. MAX_PACKETS - 1 :
                               (i - s.last_time - 1) % MAX_PACKETS < k}]

\* What HitLimit reads after the j-th of those calls: the counter and the
\* two slots times[last_time] and times[first_time].
Fed(s, t, j) ==
  LET l == (s.last_time + j) % MAX_PACKETS
  IN [packet_count |-> s.packet_count + j,
      last_time |-> l,
      times |-> (l :> Slot(s, t, j, l)) @@ (NextSlot(l) :> Slot(s, t, j, NextSlot(l)))]

\* Each of the k calls does take that branch.
AllCounted(s, port, t, k) ==
  /\ ~StatsTimedOut(s, t)
  /\ ~TooManyPorts(RemoveOldPorts(s, t))
  /\ k > 1 => ~TooManyPorts(Recorded(s, port, t))
  /\ \A j \in 1 .. k : FALSE \in HitLimit(Fed(s, t, j))

ReceiveBurst(addr, port, k) ==
  /\ k \in 1 .. MAX_PACKETS
  /\ Returning(addr)
  /\ AllCounted(table[addr], port, clock, k)
  /\ table' = [table EXCEPT ![addr] = Feed(table[addr], port, clock, k)]
  /\ Returns(addr, port, "Unbanned", {})
  /\ NoCallbacks
  /\ UNCHANGED <<bans, whitelist>>

ReceivePacket(addr, port) ==
  \/ RecvExempt(addr, port)
  \/ RecvUnban(addr, port)
  \/ RecvBanned(addr, port)
  \/ RecvWhitelist(addr, port)
  \/ RecvBlacklist(addr, port)
  \/ RecvFirstPacket(addr, port)
  \/ RecvReappearance(addr, port)
  \/ RecvMultiport(addr, port)
  \/ RecvFlood(addr, port)
  \/ RecvCounted(addr, port)

\* ----------------------------------------------------- ClearOldEntries
\* The rate limit with <: a pass also runs exactly PURGE_INTERVAL after the last.
PurgeDueAtInterval(t) == ~(difftime(t, last_purge) < PURGE_INTERVAL)

\* The rate limit measured from the engine's previous call, not from the
\* previous pass.
PurgeDueSinceCall(t) == ~(difftime(t, now) <= PURGE_INTERVAL)

PurgeDue(t) == ~(difftime(t, last_purge) <= PURGE_INTERVAL)

ClearSkip ==
  /\ ~PurgeDue(clock)
  /\ now' = clock
  /\ last' = Call("ClearOldEntries", 0, "skipped")
  /\ logged' = {}
  /\ NoCallbacks
  /\ UNCHANGED <<clock, engine, configured>>

\* unban_function called only for the records the pass erases.
PurgeUnbansExpired(t) == {a \in DOMAIN bans : BanTimedOut(bans[a], t)}

\* The bans for which the purge loop calls unban_function
PurgeUnbans(t) == DOMAIN bans

\* The purge pass erasing every record it calls unban_function for.
ClearPurgeAll ==
  /\ PurgeDue(clock)
  /\ now' = clock
  /\ table' = [a \in {x \in DOMAIN table : ~StatsTimedOut(table[x], clock)} |-> table[a]]
  /\ bans' = <<>>
  /\ banCalls' = NoCalls
  /\ unbanCalls' = [a \in Addrs |-> IF a \in PurgeUnbans(clock) THEN 1 ELSE 0]
  /\ rule' = [a \in Addrs |-> IF a \in PurgeUnbans(clock) THEN "unban" ELSE rule[a]]
  /\ unbansSinceBan' =
       [a \in Addrs |-> IF a \in PurgeUnbans(clock) THEN unbansSinceBan[a] + 1
                        ELSE unbansSinceBan[a]]
  /\ logged' = {<<"Unban:", a>> : a \in {x \in DOMAIN bans : BanTimedOut(bans[x], clock)}}
  /\ last_purge' = clock
  /\ last' = Call("ClearOldEntries", 0, "purged")
  /\ UNCHANGED <<clock, whitelist, blacklist, exceptions, configured>>

ClearPurge ==
  /\ PurgeDue(clock)
  /\ now' = clock
  /\ table' = [a \in {x \in DOMAIN table : ~StatsTimedOut(table[x], clock)} |-> table[a]]
  /\ bans' = [a \in {x \in DOMAIN bans : ~BanTimedOut(bans[x], clock)} |-> bans[a]]
  /\ banCalls' = NoCalls
  /\ unbanCalls' = [a \in Addrs |-> IF a \in PurgeUnbans(clock) THEN 1 ELSE 0]
  /\ rule' = [a \in Addrs |-> IF a \in PurgeUnbans(clock) THEN "unban" ELSE rule[a]]
  /\ unbansSinceBan' =
       [a \in Addrs |-> IF a \in PurgeUnbans(clock) THEN unbansSinceBan[a] + 1
                        ELSE unbansSinceBan[a]]
  /\ logged' = {<<"Unban:", a>> : a \in {x \in DOMAIN bans : BanTimedOut(bans[x], clock)}}
  /\ last_purge' = clock
  /\ last' = Call("ClearOldEntries", 0, "purged")
  /\ UNCHANGED <<clock, whitelist, blacklist, exceptions, configured>>

ClearOldEntries == ClearSkip \/ ClearPurge

\* ------------------------------------------------------- the environment
Tracked(a) == a \in DOMAIN table /\ ~Exempt(a) /\ a \notin DOMAIN bans

Lowest(S) == CHOOSE p \in S : \A q \in S : p <= q
Highest(S) == CHOOSE p \in S : \A q \in S : p >= q

\* A sender opens its source ports in increasing order, within its first
\* BurstHead packets, and sends from the last port it opened or opens the next.
SourcePorts(a) ==
  IF ~Tracked(a) THEN {Lowest(Ports)}
  ELSE {Highest(DOMAIN table[a].ports)}
         \cup (IF Ports \ DOMAIN table[a].ports = {} \/ table[a].packet_count >= BurstHead
               THEN {}
               ELSE {Lowest(Ports \ DOMAIN table[a].ports)})

\* The next packet from a would be counted (lines 311-325).
Counting(a) ==
  /\ Tracked(a)
  /\ ~StatsTimedOut(table[a], clock)
  /\ ~TooManyPorts(RemoveOldPorts(table[a], clock))

\* A sender that has had BurstHead packets counted since its last reset sends
\* the packets up to number MAX_PACKETS - BurstTail as one burst: back to back,
\* within one clock second, from the last port it opened.  It has at most
\* MAX_PACKETS + OverRun packets counted between resets.
AtBurst(a) == Counting(a) /\ table[a].packet_count = BurstHead
BurstLength == MAX_PACKETS - BurstTail - BurstHead
Silenced(a) == Counting(a) /\ table[a].packet_count >= MAX_PACKETS + OverRun

\* The addresses of the protected interfaces.
Interfaces == {DataCenter}

\* ------------------------------------------------------------ the system
\* A behaviour is about one remote host, peer: the packets it sends, the
\* queries about it and, when it is an interface address, its whitelisting.
\* The public operations of AttackFirewall are separate actions, so that
\* every order of calls is a behaviour; main()'s loop, which calls
\* ClearOldEntries right after every ReceivePacket, is among them.

\* main(): fw.SetBlacklist(&DataCenters, &HaxBallMatcher), before the loop
Configure ==
  /\ ~configured
  /\ SetBlacklist(DataCenters, HaxBallMatcher)
  /\ UNCHANGED <<ticks, peer>>

Advance ==
  /\ configured
  /\ ticks < MaxTicks
  /\ ticks' = ticks + 1
  /\ \E d \in Deltas : Tick(d)
  /\ UNCHANGED peer

Packet ==
  /\ configured
  /\ ~AtBurst(peer) /\ ~Silenced(peer)
  /\ \E p \in SourcePorts(peer) : ReceivePacket(peer, p)
  /\ UNCHANGED <<ticks, peer>>

Burst ==
  /\ configured
  /\ AtBurst(peer)
  /\ ReceiveBurst(peer, Highest(DOMAIN table[peer].ports), BurstLength)
  /\ UNCHANGED <<ticks, peer>>

Housekeeping == configured /\ ClearOldEntries /\ UNCHANGED <<ticks, peer>>

Verification == configured /\ Query(peer) /\ UNCHANGED <<ticks, peer>>

Protect == peer \in Interfaces /\ AddWhitelist(peer) /\ UNCHANGED <<ticks, peer>>

Next ==
  \/ Configure
  \/ Advance
  \/ Packet
  \/ Burst
  \/ Housekeeping
  \/ Verification
  \/ Protect

Spec == Init /\ [][Next]_vars

\* The engine used in any order of its operations: ReceivePacket may also be
\* called before SetBlacklist has installed the matchers.
Early(a) == ~configured /\ (Tracked(a) => table[a].packet_count < EarlyPackets)

EarlyPacket ==
  /\ Early(peer)
  /\ \E p \in SourcePorts(peer) : ReceivePacket(peer, p)
  /\ UNCHANGED <<ticks, peer>>

NextAnyOrder == Next \/ EarlyPacket

SpecAnyOrder == Init /\ [][NextAnyOrder]_vars

\* ----------------------------------------------------------- main's loop
\* The engine as main() drives it: AddWhitelist for the interface addresses,
\* SetBlacklist, then the loop, whose every data packet is handed to
\* ReceivePacket and followed by ClearOldEntries.  The clock may advance at
\* any point, also between the two calls.
Received == last.op = "ReceivePacket"

Hours == clock \div BAN_DURATION_BLACKLIST

\* The sender has gone silent for good.
Silent == Hours >= MaxIdle

Elapse(d) ==
  /\ clock' = clock + d
  /\ UNCHANGED <<now, engine, configured, last, logged, banCalls, unbanCalls,
                 rule, unbansSinceBan>>

LoopProtect == ~configured /\ Protect

LoopAdvance ==
  /\ configured
  /\ ticks < MaxTicks
  /\ ticks' = ticks + 1
  /\ \E d \in Deltas : Elapse(d)
  /\ UNCHANGED peer

\* select() blocks while no packet arrives: an hour goes by.
LoopIdle ==
  /\ configured
  /\ ~Silent
  /\ Elapse(BAN_DURATION_BLACKLIST)
  /\ UNCHANGED <<ticks, peer>>

LoopPacket == ~Received /\ ~Silent /\ Packet

LoopBurst == ~Received /\ ~Silent /\ Burst

\* A data packet of a host of the local network
LoopOther ==
  /\ configured
  /\ ~Received
  /\ ReceivePacket(Private, Lowest(Ports))
  /\ UNCHANGED <<ticks, peer>>

LoopClear == Received /\ ClearOldEntries /\ UNCHANGED <<ticks, peer>>

LoopQuery == ~Received /\ Verification

NextLoop ==
  \/ LoopProtect
  \/ Configure
  \/ LoopAdvance
  \/ LoopIdle
  \/ LoopPacket
  \/ LoopBurst
  \/ LoopOther
  \/ LoopClear
  \/ LoopQuery

\* The clock keeps advancing, data packets keep arriving, and the loop calls
\* ClearOldEntries after each of them.
SpecLoop ==
  /\ Init /\ [][NextLoop]_vars
  /\ WF_vars(Configure)
  /\ WF_vars(LoopIdle)
  /\ WF_vars(LoopOther)
  /\ WF_vars(LoopClear)

\* -------------------------------------------------------------- properties
\* The statistics of a (when tracked) hold exactly n distinct source ports,
\* each last seen within TIMEOUT of the clock.
LivePorts(a, n) ==
  /\ Returning(a)
  /\ ~StatsTimedOut(table[a], clock)
  /\ Cardinality(DOMAIN table[a].ports) = n
  /\ RemoveOldPorts(table[a], clock) = table[a]

\* The call just completed banned a for the given reason at the current second.
BannedFor(a, tag, duration) ==
  /\ last'.result = "Ban"
  /\ logged' = {<<tag, a>>}
  /\ a \in DOMAIN bans'
  /\ bans'[a].expiry = clock + duration
  /\ a \notin DOMAIN table'
  /\ banCalls' = [NoCalls EXCEPT ![a] = 1]

\* C1: the ReceivePacket call that brings a fourth distinct source port, the
\* other three each seen within TIMEOUT, returns Ban for Multiport: the
\* address enters bans with expiry now + BAN_DURATION_MULTIPORT, leaves table
\* and ban_function is called once.
C1_FourthPortBans ==
  [][\A p \in Ports :
       (/\ LivePorts(peer, MAX_PORTS)
        /\ p \notin DOMAIN table[peer].ports
        /\ ReceivePacket(peer, p))
       => BannedFor(peer, "Multiport:", BAN_DURATION_MULTIPORT)]_vars

\* C2: from one source port, each of the first MAX_PACKETS packets returns
\* Unbanned (the burst that carries the packets up to MAX_PACKETS - BurstTail
\* is accepted whole, and so is every single packet below MAX_PACKETS), and
\* the packet after MAX_PACKETS packets of the current second returns Ban for
\* Flood: the address enters bans with expiry now + BAN_DURATION_FLOOD, leaves
\* table and ban_function is called once.
C2_FloodSharp ==
  /\ [](AtBurst(peer) /\ Cardinality(DOMAIN table[peer].ports) = 1
          => AllCounted(table[peer], Highest(DOMAIN table[peer].ports), clock, BurstLength))
  /\ [][(last'.op = "ReceivePacket" /\ LivePorts(peer, 1)) =>
          /\ table[peer].packet_count < MAX_PACKETS =>
               /\ last'.result = "Unbanned"
               /\ peer \in DOMAIN table' /\ peer \notin DOMAIN bans'
               /\ banCalls' = NoCalls
          /\ (/\ table[peer].packet_count = MAX_PACKETS
              /\ \A i \in 0 .. MAX_PACKETS - 1 : table[peer].times[i] = clock)
               => BannedFor(peer, "Flood:", BAN_DURATION_FLOOD)]_vars

\* The 81st packet of one second from one port has just been refused.
C2_Witness ==
  /\ last.op = "ReceivePacket" /\ last.result = "Ban"
  /\ logged = {<<"Flood:", peer>>}
  /\ peer \in DOMAIN bans /\ bans[peer].expiry = clock + BAN_DURATION_FLOOD
  /\ banCalls[peer] = 1

\* C3: after every call no address is a key of both table and bans.
C3_TableBansDisjoint == DOMAIN table \cap DOMAIN bans = {}

\* A tracked address has just been moved from table to bans.
C3_Witness ==
  /\ last.op = "ReceivePacket" /\ last.result = "Ban"
  /\ logged = {<<"Multiport:", peer>>}
  /\ peer \in DOMAIN bans /\ peer \notin DOMAIN table

\* C4: after every call, AddWhitelist of a banned address included, no
\* whitelisted address is a key of bans.
C4_WhitelistNotBanned == whitelist \cap DOMAIN bans = {}

\* C5: ReceivePacket for a special or whitelisted address returns Unbanned,
\* leaves table, bans and whitelist as they were, writes no log line and calls
\* neither ban_function nor unban_function.
C5_ExemptionTotal ==
  [][(last'.op = "ReceivePacket" /\ Exempt(peer)) =>
       /\ last'.result = "Unbanned"
       /\ UNCHANGED <<table, bans, whitelist>>
       /\ logged' = {}
       /\ banCalls' = NoCalls
       /\ unbanCalls' = NoCalls]_vars

\* A packet of a whitelisted, not special address has just been let through.
C5_Witness ==
  /\ last.op = "ReceivePacket" /\ last.addr = peer /\ last.result = "Unbanned"
  /\ peer \in whitelist /\ ~IsSpecialAddress(peer)
  /\ logged = {}

\* The ban duration that goes with a log tag.
DurationOf(lines) ==
  IF lines = {<<"Multiport:", peer>>} THEN BAN_DURATION_MULTIPORT
  ELSE IF lines = {<<"Flood:", peer>>} THEN BAN_DURATION_FLOOD
  ELSE BAN_DURATION_BLACKLIST

\* C6: a ban record expires at the second of the ban decision plus the
\* duration of its reason.  ReceivePacket for a banned, not exempt address
\* before the expiry returns Banned and changes nothing, logs nothing and
\* calls nothing; at or after the expiry it returns Unban, erases the record
\* and calls unban_function once, and the address is then in neither bans
\* nor table.
C6_BanExpiryByPacket ==
  [][last'.op = "ReceivePacket" =>
       /\ last'.result = "Ban" =>
            /\ peer \in DOMAIN bans'
            /\ bans'[peer].expiry = clock + DurationOf(logged')
       /\ (~Exempt(peer) /\ peer \in DOMAIN bans) =>
            IF clock < bans[peer].expiry
              THEN /\ last'.result = "Banned"
                   /\ UNCHANGED <<table, bans, whitelist>>
                   /\ logged' = {}
                   /\ banCalls' = NoCalls /\ unbanCalls' = NoCalls
              ELSE /\ last'.result = "Unban"
                   /\ peer \notin DOMAIN bans' /\ peer \notin DOMAIN table'
                   /\ unbanCalls' = [NoCalls EXCEPT ![peer] = 1]
                   /\ banCalls' = NoCalls]_vars

\* The first packet at the expiry of a ban has just lifted it.
C6_Witness ==
  /\ last.op = "ReceivePacket" /\ last.result = "Unban"
  /\ unbanCalls[peer] = 1
  /\ peer \notin DOMAIN bans /\ peer \notin DOMAIN table

\* C7: between the insertion of a ban record and its removal, unban_function
\* is called at most once for the address.
C7_UnbanAtMostOnce == \A a \in Addrs : unbansSinceBan[a] <= 1

\* C8: while an address is in bans and its ban has not expired, the most
\* recent actuator callback for it is ban_function.
C8_RuleInstalledWhileBanned ==
  \A a \in DOMAIN bans : clock < bans[a].expiry => rule[a] = "ban"

\* C9: at the end of every ReceivePacket call every tracked address has at
\* most MAX_PORTS source ports on record.
C9_PortsBounded ==
  last.op = "ReceivePacket" =>
    \A a \in DOMAIN table : Cardinality(DOMAIN table[a].ports) <= MAX_PORTS

\* C10: IsActive(addr) answers true exactly when addr is tracked and at most
\* TIMEOUT seconds lie between its last accepted packet and the query.
C10_ActiveIffRecent ==
  last.op = "IsActive" =>
    (last.result <=>
       /\ last.addr \in DOMAIN table
       /\ difftime(clock, table[last.addr].times[table[last.addr].last_time]) <= TIMEOUT)

\* C11: with 10.0.0.0/8 in the exceptions, the first ReceivePacket from
\* 10.1.1.1 returns Unbanned, writes a Whitelist: line and puts the address in
\* whitelist; every packet from it returns Unbanned and creates no ban.
C11_PrivateWhitelisted ==
  [][(/\ last'.op = "ReceivePacket"
      /\ peer = Private
      /\ exceptions # NULL /\ Contains(exceptions, Private)) =>
       /\ last'.result = "Unbanned"
       /\ bans' = bans
       /\ banCalls' = NoCalls
       /\ Private \in whitelist'
       /\ Private \notin whitelist => logged' = {<<"Whitelist:", Private>>}]_vars

\* The recorded arrivals of s that lie within MAX_PACKET_FRAME of second t.
\* The ring keeps the last MAX_PACKETS arrivals, so the count is exact below
\* MAX_PACKETS.
WindowArrivals(s, t) ==
  Cardinality({i \in 0 .. MAX_PACKETS - 1 :
                 /\ s.times[i] # Indeterminate
                 /\ difftime(t, s.times[i]) < MAX_PACKET_FRAME})

\* C12: ReceivePacket returns Ban for Flood only if more than MAX_PACKETS
\* packets of the address, the banning one included, arrived within
\* MAX_PACKET_FRAME, whatever its earlier traffic was.
C12_FloodSound ==
  [][(/\ last'.op = "ReceivePacket"
      /\ last'.result = "Ban"
      /\ logged' = {<<"Flood:", peer>>}
      /\ peer \in DOMAIN table) =>
       WindowArrivals(table[peer], clock) + 1 > MAX_PACKETS]_vars

\* Seconds between the last accepted packet of tracked address a and t.
Silence(a, t) == difftime(t, table[a].times[table[a].last_time])

\* C13: for a tracked address whose last accepted packet is more than TIMEOUT
\* old, ReceivePacket(addr, port) returns Unbanned and leaves packet_count = 1,
\* ports = {port -> now} and the cursor on the one new timestamp, whatever was
\* recorded before; every timestamp left over in the ring is more than TIMEOUT
\* old.  With exactly TIMEOUT seconds elapsed, or fewer, the entry is not
\* reset.
C13_ReappearanceResets ==
  /\ [][\A p \in Ports :
          (Returning(peer) /\ Silence(peer, clock) > TIMEOUT /\ ReceivePacket(peer, p)) =>
            /\ last'.result = "Unbanned"
            /\ logged' = {<<"Reappearance:", peer>>}
            /\ bans' = bans /\ banCalls' = NoCalls
            /\ peer \in DOMAIN table'
            /\ table'[peer].packet_count = 1
            /\ table'[peer].ports = (p :> clock)
            /\ table'[peer].last_time = 0
            /\ table'[peer].times[0] = clock
            /\ \A i \in 1 .. MAX_PACKETS - 1 :
                 \/ table'[peer].times[i] = Indeterminate
                 \/ difftime(clock, table'[peer].times[i]) > TIMEOUT]_vars
  /\ [][(/\ last'.op = "ReceivePacket"
         /\ Returning(peer)
         /\ Silence(peer, clock) <= TIMEOUT) =>
          /\ logged' # {<<"Reappearance:", peer>>}
          /\ peer \in DOMAIN table' => table'[peer].packet_count > table[peer].packet_count]_vars

\* An address with several packets on record has just reappeared.
C13_Witness ==
  /\ last.op = "ReceivePacket" /\ last.result = "Unbanned"
  /\ logged = {<<"Reappearance:", peer>>}
  /\ peer \in DOMAIN table
  /\ table[peer].packet_count = 1
  /\ table[peer].times[1] # Indeterminate

\* Seconds from the oldest to the newest timestamp of a ring whose slots have
\* all been written.
RingSpan(s) ==
  LET newest == CHOOSE x \in {s.times[i] : i \in 0 .. MAX_PACKETS - 1} :
                  \A i \in 0 .. MAX_PACKETS - 1 : s.times[i] <= x
      oldest == CHOOSE x \in {s.times[i] : i \in 0 .. MAX_PACKETS - 1} :
                  \A i \in 0 .. MAX_PACKETS - 1 : s.times[i] >= x
  IN difftime(newest, oldest)

\* C14: when a tracked, not timed out address with at most MAX_PORTS live
\* ports sends a packet and, with that packet counted, packet_count >=
\* MAX_PACKETS and the ring spans at most MAX_PACKET_FRAME seconds, oldest to
\* newest, ReceivePacket returns Ban for Flood.
C14_FloodWhenRingFull ==
  [][\A p \in Ports :
       (/\ Counting(peer)
        /\ Counted(table[peer], p, clock).packet_count >= MAX_PACKETS
        /\ \A i \in 0 .. MAX_PACKETS - 1 :
             Counted(table[peer], p, clock).times[i] # Indeterminate
        /\ RingSpan(Counted(table[peer], p, clock)) <= MAX_PACKET_FRAME
        /\ ReceivePacket(peer, p))
       => BannedFor(peer, "Flood:", BAN_DURATION_FLOOD)]_vars

\* C15: a record leaves bans only in a ReceivePacket call for its address or
\* in a purge pass, and only when now >= its expiry; until then the record
\* stays and its expiry does not change.
C15_NoEarlyUnban ==
  [][\A a \in DOMAIN bans :
       \/ a \in DOMAIN bans' /\ bans'[a] = bans[a]
       \/ /\ a \notin DOMAIN bans'
          /\ now' >= bans[a].expiry
          /\ \/ last'.op = "ReceivePacket" /\ last'.addr = a
             \/ last'.op = "ClearOldEntries" /\ last'.result = "purged"]_vars

\* A purge pass has just removed an expired record.
C15_Witness ==
  /\ last.op = "ClearOldEntries" /\ last.result = "purged"
  /\ logged = {<<"Unban:", peer>>}
  /\ peer \notin DOMAIN bans
  /\ unbanCalls[peer] = 1

\* C16: a purge pass that runs (now - last_purge > PURGE_INTERVAL) leaves in
\* table exactly the entries whose last arrival is at most TIMEOUT old and in
\* bans exactly the records with now < expiry, unchanged; it calls
\* unban_function once for every address that was in bans, expired or not,
\* never ban_function, leaves whitelist alone and sets last_purge = now.
C16_PurgeEffect ==
  [][(last'.op = "ClearOldEntries" /\ difftime(clock, last_purge) > PURGE_INTERVAL) =>
       /\ now' = clock
       /\ DOMAIN table' = {a \in DOMAIN table : Silence(a, clock) <= TIMEOUT}
       /\ \A a \in DOMAIN table' : table'[a] = table[a]
       /\ DOMAIN bans' = {a \in DOMAIN bans : clock < bans[a].expiry}
       /\ \A a \in DOMAIN bans' : bans'[a] = bans[a]
       /\ unbanCalls' = [a \in Addrs |-> IF a \in DOMAIN bans THEN 1 ELSE 0]
       /\ banCalls' = NoCalls
       /\ whitelist' = whitelist
       /\ last_purge' = clock]_vars

\* A purge pass has just run over a record that has not expired.
C16_Witness ==
  /\ last.op = "ClearOldEntries" /\ last.result = "purged"
  /\ last_purge = clock
  /\ peer \in DOMAIN bans /\ clock < bans[peer].expiry
  /\ unbanCalls[peer] = 1

\* C17: ClearOldEntries called with now - last_purge <= PURGE_INTERVAL leaves
\* table, bans, whitelist and last_purge as they were and calls nothing, stale
\* statistics or expired bans notwithstanding; so last_purge only ever moves
\* by more than PURGE_INTERVAL.
C17_PurgeRateLimit ==
  /\ [][(last'.op = "ClearOldEntries" /\ difftime(clock, last_purge) <= PURGE_INTERVAL) =>
          /\ UNCHANGED <<table, bans, whitelist, last_purge>>
          /\ logged' = {}
          /\ banCalls' = NoCalls
          /\ unbanCalls' = NoCalls]_vars
  /\ [][last_purge' # last_purge =>
          difftime(last_purge', last_purge) > PURGE_INTERVAL]_vars

\* A call within the interval has just left a stale entry in table.
C17_Witness ==
  /\ last.op = "ClearOldEntries" /\ last.result = "skipped"
  /\ last_purge > 0
  /\ peer \in DOMAIN table
  /\ Silence(peer, clock) > TIMEOUT

\* The slot k places after the cursor of s, around the ring.
After(s, k) == (s.last_time + k) % MAX_PACKETS

\* C18: the cursor of every tracked address is in 0 .. MAX_PACKETS - 1; once
\* packet_count >= MAX_PACKETS every slot has been written since the last
\* reset, the ring holds the arrivals in order from the slot after the cursor
\* round to the cursor, so that slot holds the oldest of the last MAX_PACKETS
\* arrivals; and the flood decision does not depend on a slot that was not
\* written since the last reset: when HitLimit is reached with such a slot
\* after the cursor, its answer is the same whatever the slot holds.
C18_PacketWindow ==
  /\ [](\A a \in DOMAIN table :
          /\ table[a].last_time \in 0 .. MAX_PACKETS - 1
          /\ table[a].last_time \in table[a].fresh
          /\ table[a].packet_count >= MAX_PACKETS =>
               /\ table[a].fresh = 0 .. MAX_PACKETS - 1
               /\ \A i \in 0 .. MAX_PACKETS - 1 : table[a].times[i] # Indeterminate
               /\ \A k \in 1 .. MAX_PACKETS - 1 :
                    table[a].times[After(table[a], k)] <= table[a].times[After(table[a], k + 1)])
  /\ [][\A p \in Ports :
          (/\ Counting(peer)
           /\ ReceivePacket(peer, p)
           /\ NextSlot(Counted(table[peer], p, clock).last_time)
                \notin Counted(table[peer], p, clock).fresh) =>
            \A x \in {Indeterminate, 0, clock} :
              HitLimit([Counted(table[peer], p, clock) EXCEPT
                          !.times[NextSlot(Counted(table[peer], p, clock).last_time)] = x])
                = {FALSE}]_vars

\* A full ring whose cursor has wrapped: more than MAX_PACKETS packets counted
\* since the last reset, the latest of them after TIMEOUT seconds of clock.
C18_Witness ==
  /\ peer \in DOMAIN table
  /\ table[peer].packet_count > MAX_PACKETS
  /\ table[peer].times[0] > TIMEOUT

\* The matcher is installed and contains the address.
Listed(matcher, a) == matcher # NULL /\ Contains(matcher, a)

\* C19: on the first sighting of an address that is not special, whitelisted
\* or banned, the exceptions come first: an address they contain is put in
\* whitelist, blacklisted or not, and no ban is created for a whitelisted
\* address afterwards; otherwise an address the blacklist contains is put in
\* bans with expiry now + BAN_DURATION_BLACKLIST, ban_function is called once,
\* Ban is returned and no statistics entry is created.  For an address already
\* in table the blacklist is not consulted.
C19_FirstSightingPrecedence ==
  /\ [][(last'.op = "ReceivePacket" /\ FirstSighting(peer) /\ Listed(exceptions, peer)) =>
          /\ last'.result = "Unbanned"
          /\ logged' = {<<"Whitelist:", peer>>}
          /\ peer \in whitelist'
          /\ bans' = bans /\ table' = table
          /\ banCalls' = NoCalls]_vars
  /\ [][(peer \in whitelist) =>
          /\ peer \in whitelist'
          /\ peer \notin DOMAIN bans => peer \notin DOMAIN bans'
          /\ banCalls'[peer] = 0]_vars
  /\ [][(/\ last'.op = "ReceivePacket"
         /\ FirstSighting(peer)
         /\ ~Listed(exceptions, peer)
         /\ Listed(blacklist, peer)) =>
          /\ BannedFor(peer, "Blacklist:", BAN_DURATION_BLACKLIST)
          /\ table' = table]_vars
  /\ [][(last'.op = "ReceivePacket" /\ Returning(peer)) =>
          /\ logged' # {<<"Blacklist:", peer>>}
          /\ last'.result = "Ban" =>
               logged' \in {{<<"Multiport:", peer>>}, {<<"Flood:", peer>>}}]_vars

\* A blacklisted address that was tracked before the blacklist was installed
\* has just had another packet counted.
C19_Witness ==
  /\ last.op = "ReceivePacket" /\ last.result = "Unbanned"
  /\ Listed(blacklist, peer) /\ ~Listed(exceptions, peer)
  /\ peer \in DOMAIN table
  /\ table[peer].packet_count > EarlyPackets

\* C20: in main's loop, while the clock keeps advancing and data packets keep
\* being processed, every ban record is eventually removed from bans, and the
\* table entry of an address that has stopped sending is eventually removed
\* from table.
C20_Reclamation ==
  /\ \A a \in Addrs : (a \in DOMAIN bans) ~> (a \notin DOMAIN bans)
  /\ \A a \in Addrs : (Silent /\ a \in DOMAIN table) ~> (a \notin DOMAIN table)

\* A purge pass of the loop has just erased the ban record of the sender.
C20_Witness ==
  /\ last.op = "ClearOldEntries" /\ last.result = "purged"
  /\ <<"Unban:", peer>> \in logged
  /\ peer \notin DOMAIN bans /\ peer \notin DOMAIN table
  /\ Silent

====
